---- MODULE Spec2Model ----
(***************************************************************************)
(* Model of the Game-of-Life core of gol-rust: the bit-packed Cell         *)
(* (src/gol/types/cell.rs and src/cell.rs), the toroidal CellArray         *)
(* (src/gol/types/cell_array.rs) and the Engine (src/gol/engine.rs).       *)
(***************************************************************************)
EXTENDS Integers, Naturals, Sequences, FiniteSets, TLC

VARIABLES
    debug,       \* TRUE: build with overflow checks (u8 `count - 1` panics); FALSE: it wraps
    H,           \* const generic H of CellArray<H, W> / Engine<H, W>
    W,           \* const generic W
    cells,       \* Engine.cells: cells[y][x] is the byte of the Cell in row y, column x
    cell_cache,  \* Engine.cell_cache
    panic,       \* "none", or the panic that ended the run: "assert" (a failed assert!),
                 \* "overflow" (u8 arithmetic overflow), "index" (array index out of bounds)
    last,        \* the call that produced this state: [op, x, y]
    pre,         \* Engine.cells as it was when that call started
    steps,       \* number of calls made on the Engine so far
    cell,        \* a stand-alone Cell of src/gol/types/cell.rs (its u8)
    rcell,       \* a stand-alone Cell of src/cell.rs (its u8)
    cpre,        \* the byte of the stand-alone cell when the last call on it started
    seed,        \* the calls that first filled the Engine's empty grid: [kind, x, y]
    todo         \* the turns (x, y) of a scan made in any order that are still to be made

vars == <<debug, H, W, cells, cell_cache, panic, last, pre, steps, cell, rcell, cpre, seed, todo>>

(***************************************************************************)
(* Bounds of the model.                                                    *)
(***************************************************************************)
MaxDim == 3      \* grids of every size 1..MaxDim x 1..MaxDim
MaxOps == 2      \* calls made on one Engine
MaxArg == 9      \* largest argument handed to set_neighbors
MaxRootOps == 2  \* calls made on one CellArray of src/gol/cell_array.rs
MaxSeedDim == 5  \* seeded grids of every size 1..MaxSeedDim x 1..MaxSeedDim
MaxGen == 4      \* generate() calls made on a seeded grid
MaxRandDim == 3  \* randomized grids of every size 1..MaxRandDim x 1..MaxRandDim
MaxHeads == 4    \* turns of randomize() in which rand::random() returns true
MaxRandGen == 2  \* generate() calls made on a randomized grid
MaxMainDim == 3  \* grids of main.rs of every size 1..MaxMainDim x 1..MaxMainDim
MaxPairH == 2    \* rows of the grids on which two calls are compared
MaxPairW == 6    \* columns of the grids on which two calls are compared
MaxFieldDim == 2 \* Fields of every size 1..MaxFieldDim x 1..MaxFieldDim
MaxFieldOps == 2 \* calls made on one Field
MaxDiscDim == 3  \* grids of every size 1..MaxDiscDim x 1..MaxDiscDim under disciplined calls
MaxDiscOps == 3  \* disciplined spawn and kill_cell calls made on one grid
MaxSquareDim == 3 \* square grids of every size 1..MaxSquareDim
MaxSquareOps == 4 \* spawn and generate() calls made on one square grid
MaxOrderDim == 5 \* square grids of every size 1..MaxOrderDim scanned in any order
MaxOrderGen == 2 \* generations made with a scan in any order
MaxMainOps == 3  \* spawn_cell, kill_cell and solve calls made on one grid of main.rs

(***************************************************************************)
(* u8 arithmetic.                                                          *)
(***************************************************************************)
U8 == 256

\* a << 1 on a u8: the bit shifted out of the top is lost
Shl1(a) == (a * 2) % U8

\* a >> 1 on a u8
Shr1(a) == a \div 2

\* a & 1
And1(a) == a % 2

\* a & 0b1110_0001
AndE1(a) == (a \div 32) * 32 + (a % 2)

\* a & 0b0001_1110
And1E(a) == (a % 32) - (a % 2)

\* a | v, for a and v with no set bit in common
Or(a, v) == a + v

(***************************************************************************)
(* Cell of src/gol/types/cell.rs (the Engine's cell).                      *)
(***************************************************************************)
Cell_new == 0

Cell_spawn_value(b) == 1

Cell_spawn(b) == IF And1(b) = 1 THEN b ELSE b + 1

Cell_kill_zero(b) == 0

Cell_kill(b) == b - And1(b)

Cell_alive(b) == And1(b) = 1

Cell_neighbours(b) == Shr1(b) % 16

\* assert!(count <= 8) in place of assert!(count + 1 <= 8)
Cell_add_neighbour_late(b) ==
    LET count == Shr1(b) % 16
    IN  IF count <= 8
        THEN [v |-> Or(And1(b), Shl1(count + 1)), panic |-> "none"]
        ELSE [v |-> b, panic |-> "assert"]

\* the result of add_neighbour: the new byte, and the panic of a failed assert!
Cell_add_neighbour(b) ==
    LET count == Shr1(b) % 16
    IN  IF count + 1 <= 8
        THEN [v |-> Or(And1(b), Shl1(count + 1)), panic |-> "none"]
        ELSE [v |-> b, panic |-> "assert"]

\* the result of remove_neighbour: `count - 1` on a u8 that is 0 panics in a
\* build with overflow checks and wraps to 255 in a build without
Cell_remove_neighbour(b, dbg) ==
    LET count == Shr1(b) % 16
    IN  IF count = 0
        THEN IF dbg
             THEN [v |-> b, panic |-> "overflow"]
             ELSE [v |-> Or(And1(b), Shl1(U8 - 1)), panic |-> "none"]
        ELSE [v |-> Or(And1(b), Shl1(count - 1)), panic |-> "none"]

(***************************************************************************)
(* Cell of src/cell.rs (the cell main.rs runs).                            *)
(***************************************************************************)
RootCell_new == 0

RootCell_spawn(b) == IF And1(b) = 1 THEN b ELSE b + 1

RootCell_kill(b) == 0

\* a set_neighbors that masks the byte with 0b1110_0000 and so drops bit 0
RootCell_set_neighbors_dropalive(b, count) ==
    IF count <= 8
    THEN [v |-> Or(AndE1(b) - And1(b), And1E(Shl1(count))), panic |-> "none"]
    ELSE [v |-> b, panic |-> "assert"]

\* self.0 &= 0b1110_0001; self.0 |= (count << 1) & 0b0001_1110
RootCell_set_neighbors(b, count) ==
    IF count <= 8
    THEN [v |-> Or(AndE1(b), And1E(Shl1(count))), panic |-> "none"]
    ELSE [v |-> b, panic |-> "assert"]

RootCell_neighbour_cnt(b) == Shr1(b) % 16

RootCell_is_alive(b) == And1(b) = 1

\* a clear() that resets the count and keeps bit 0
RootCell_clear_count(b) == And1(b)

RootCell_clear(b) == 0

RootCell_increment_neighbour_count(b) ==
    LET count == Shr1(b) % 16
    IN  IF count <= 8
        THEN [v |-> Or(And1(b), Shl1(count + 1)), panic |-> "none"]
        ELSE [v |-> b, panic |-> "assert"]

\* the decrement without its `if count == 0 { return; }`, in a build where u8 wraps
RootCell_decrement_unguarded(b) ==
    LET count == Shr1(b) % 16
    IN  Or(And1(b), Shl1((count + U8 - 1) % U8))

RootCell_decrement_neighbour_count(b) ==
    LET count == Shr1(b) % 16
    IN  IF count = 0
        THEN b
        ELSE Or(And1(b), Shl1(count - 1))

(***************************************************************************)
(* CellArray of src/gol/types/cell_array.rs (the Engine's grid).           *)
(***************************************************************************)
\* a % n on isize: the remainder of the division truncated toward zero
RustRem(a, n) == IF a >= 0 THEN a % n ELSE 0 - ((0 - a) % n)

CellArray_new(h, w) == [y \in 0..(h - 1) |-> [x \in 0..(w - 1) |-> Cell_new]]

CellArray_rows(h, w) == h

CellArray_cols(h, w) == w

\* wrapped_x and wrapped_y of cell()
cell_wrapped_x(x, w) == RustRem(RustRem(x, w) + w, w)

cell_wrapped_y(y, h) == RustRem(RustRem(y, h) + h, h)

\* x % W in place of (x % W + W) % W
mut_cell_wrapped_x_rem(x, w) == RustRem(x, w)

\* wrapped_x and wrapped_y of mut_cell()
mut_cell_wrapped_x(x, w) == RustRem(RustRem(x, w) + w, w)

mut_cell_wrapped_y(y, h) == RustRem(RustRem(y, h) + h, h)

\* the indexing self.0[wrapped_y][wrapped_x] panics outside the array
InArray(wy, wx, h, w) == wy \in 0..(h - 1) /\ wx \in 0..(w - 1)

\* cell(x, y): the byte of the cell read
CellArray_cell(g, x, y, h, w) == g[cell_wrapped_y(y, h)][cell_wrapped_x(x, w)]

\* mut_cell(x, y): the place <<row, column>> of the cell handed out
CellArray_mut_cell(x, y, h, w) == <<mut_cell_wrapped_y(y, h), mut_cell_wrapped_x(x, w)>>

\* a table whose `top` entry is the cell itself
CellArray_neighbour_coordinates_self(x, y) ==
    << <<x - 1, y - 1>>, <<x, y>>, <<x + 1, y - 1>>,
       <<x - 1, y>>,               <<x + 1, y>>,
       <<x - 1, y + 1>>, <<x, y + 1>>, <<x + 1, y + 1>> >>

CellArray_neighbour_coordinates(x, y) ==
    << <<x - 1, y - 1>>, <<x, y - 1>>, <<x + 1, y - 1>>,
       <<x - 1, y>>,                   <<x + 1, y>>,
       <<x - 1, y + 1>>, <<x, y + 1>>, <<x + 1, y + 1>> >>

\* one call f on the cell mut_cell(x, y) of the grid r.cells; f is "spawn",
\* "kill", "add_neighbour" or "remove_neighbour"
OnCell(r, x, y, h, w, dbg, f) ==
    LET at == CellArray_mut_cell(x, y, h, w)
    IN  IF r.panic # "none" THEN r
        ELSE IF ~InArray(at[1], at[2], h, w) THEN [cells |-> r.cells, panic |-> "index"]
        ELSE LET b   == r.cells[at[1]][at[2]]
                 res == CASE f = "spawn" -> [v |-> Cell_spawn(b), panic |-> "none"]
                          [] f = "kill" -> [v |-> Cell_kill(b), panic |-> "none"]
                          [] f = "add_neighbour" -> Cell_add_neighbour(b)
                          [] f = "remove_neighbour" -> Cell_remove_neighbour(b, dbg)
             IN  [cells |-> [r.cells EXCEPT ![at[1]][at[2]] = res.v], panic |-> res.panic]

\* the loop `for (nx, ny) in neighbour_coordinates.iter()` from its i-th turn on
RECURSIVE OnNeighbours(_, _, _, _, _, _, _)
OnNeighbours(r, coords, i, h, w, dbg, f) ==
    IF i > Len(coords) \/ r.panic # "none" THEN r
    ELSE OnNeighbours(OnCell(r, coords[i][1], coords[i][2], h, w, dbg, f),
                      coords, i + 1, h, w, dbg, f)

\* a spawn that also adds to the count of the cell two columns to the right
CellArray_spawn_far(g, x, y, h, w, dbg) ==
    LET neighbour_coordinates == CellArray_neighbour_coordinates(x, y) \o << <<x + 2, y>> >>
        spawned == OnCell([cells |-> g, panic |-> "none"], x, y, h, w, dbg, "spawn")
    IN  OnNeighbours(spawned, neighbour_coordinates, 1, h, w, dbg, "add_neighbour")

CellArray_spawn(g, x, y, h, w, dbg) ==
    LET neighbour_coordinates == CellArray_neighbour_coordinates(x, y)
        spawned == OnCell([cells |-> g, panic |-> "none"], x, y, h, w, dbg, "spawn")
    IN  OnNeighbours(spawned, neighbour_coordinates, 1, h, w, dbg, "add_neighbour")

\* a kill_cell that leaves the neighbours' counts alone
CellArray_kill_cell_only(g, x, y, h, w, dbg) ==
    OnCell([cells |-> g, panic |-> "none"], x, y, h, w, dbg, "kill")

CellArray_kill_cell(g, x, y, h, w, dbg) ==
    LET neighbour_coordinates == CellArray_neighbour_coordinates(x, y)
        killed == OnCell([cells |-> g, panic |-> "none"], x, y, h, w, dbg, "kill")
    IN  OnNeighbours(killed, neighbour_coordinates, 1, h, w, dbg, "remove_neighbour")

\* calc_neighbours of src/gol/cell_array.rs: the alive cells among the 8
\* wrapped neighbour coordinates, counted one by one
CellArray_calc_neighbours(g, x, y, h, w) ==
    LET neighbors == CellArray_neighbour_coordinates(x, y)
    IN  Cardinality({i \in 1..8 : Cell_alive(CellArray_cell(g, neighbors[i][1], neighbors[i][2], h, w))})

(***************************************************************************)
(* Engine of src/gol/engine.rs.                                            *)
(***************************************************************************)
\* the coordinates `for x in 0..rows() { for y in 0..cols() {` goes through, in order
ScanOrder(h, w) ==
    LET rows == CellArray_rows(h, w)
        cols == CellArray_cols(h, w)
    IN  [k \in 1..(rows * cols) |-> <<(k - 1) \div cols, (k - 1) % cols>>]

\* the loop body deciding on the live grid instead of cell_cache
GenerateAt_live(r, cache, x, y, h, w, dbg) ==
    LET at == CellArray_mut_cell(x, y, h, w)
    IN  IF ~InArray(at[1], at[2], h, w) THEN [cells |-> r.cells, panic |-> "index"]
        ELSE LET c == r.cells[at[1]][at[2]]
                 neighbour_count == Cell_neighbours(c)
             IN  IF c = 0 THEN r
                 ELSE IF Cell_alive(c)
                 THEN IF neighbour_count < 2 \/ neighbour_count > 3
                      THEN CellArray_kill_cell(r.cells, x, y, h, w, dbg)
                      ELSE r
                 ELSE IF neighbour_count = 3
                      THEN CellArray_spawn(r.cells, x, y, h, w, dbg)
                      ELSE r

\* the loop body with `neighbour_count >= 3` in place of `neighbour_count > 3`
GenerateAt_crowded3(r, cache, x, y, h, w, dbg) ==
    LET at == CellArray_mut_cell(x, y, h, w)
    IN  IF ~InArray(at[1], at[2], h, w) THEN [cells |-> r.cells, panic |-> "index"]
        ELSE LET c == cache[at[1]][at[2]]
                 neighbour_count == Cell_neighbours(c)
             IN  IF c = 0 THEN r
                 ELSE IF Cell_alive(c)
                 THEN IF neighbour_count < 2 \/ neighbour_count >= 3
                      THEN CellArray_kill_cell(r.cells, x, y, h, w, dbg)
                      ELSE r
                 ELSE IF neighbour_count = 3
                      THEN CellArray_spawn(r.cells, x, y, h, w, dbg)
                      ELSE r

\* the loop body with the shortcut taken on `cell.neighbours() == 0` in place
\* of `*cell == 0b00000000`
GenerateAt_skip_lonely(r, cache, x, y, h, w, dbg) ==
    LET at == CellArray_mut_cell(x, y, h, w)
    IN  IF ~InArray(at[1], at[2], h, w) THEN [cells |-> r.cells, panic |-> "index"]
        ELSE LET c == cache[at[1]][at[2]]
                 neighbour_count == Cell_neighbours(c)
             IN  IF neighbour_count = 0 THEN r
                 ELSE IF Cell_alive(c)
                 THEN IF neighbour_count < 2 \/ neighbour_count > 3
                      THEN CellArray_kill_cell(r.cells, x, y, h, w, dbg)
                      ELSE r
                 ELSE IF neighbour_count = 3
                      THEN CellArray_spawn(r.cells, x, y, h, w, dbg)
                      ELSE r

\* the body of the scan loop at (x, y): r is the live grid, cache the snapshot
GenerateAt(r, cache, x, y, h, w, dbg) ==
    LET at == CellArray_mut_cell(x, y, h, w)
    IN  IF ~InArray(at[1], at[2], h, w) THEN [cells |-> r.cells, panic |-> "index"]
        ELSE LET c == cache[at[1]][at[2]]
                 neighbour_count == Cell_neighbours(c)
             IN  IF c = 0 THEN r
                 ELSE IF Cell_alive(c)
                 THEN IF neighbour_count < 2 \/ neighbour_count > 3
                      THEN CellArray_kill_cell(r.cells, x, y, h, w, dbg)
                      ELSE r
                 ELSE IF neighbour_count = 3
                      THEN CellArray_spawn(r.cells, x, y, h, w, dbg)
                      ELSE r

RECURSIVE GenerateScan(_, _, _, _, _, _, _)
GenerateScan(r, cache, scan, k, h, w, dbg) ==
    IF k > Len(scan) \/ r.panic # "none" THEN r
    ELSE GenerateScan(GenerateAt(r, cache, scan[k][1], scan[k][2], h, w, dbg),
                      cache, scan, k + 1, h, w, dbg)

\* generate(): cell_cache.clone_from(&cells), then the scan
Engine_generate(g, h, w, dbg) ==
    GenerateScan([cells |-> g, panic |-> "none"], g, ScanOrder(h, w), 1, h, w, dbg)

(***************************************************************************)
(* The Engine under spawn, kill_cell and generate calls.                   *)
(***************************************************************************)
NoCall == [op |-> "new", x |-> 0, y |-> 0]

NoSeed == [kind |-> "none", x |-> 0, y |-> 0]

Init ==
    /\ debug \in BOOLEAN
    /\ H \in 1..MaxDim
    /\ W \in 1..MaxDim
    /\ cells = CellArray_new(H, W)
    /\ cell_cache = CellArray_new(H, W)
    /\ panic = "none"
    /\ last = NoCall
    /\ pre = CellArray_new(H, W)
    /\ steps = 0
    /\ cell = Cell_new
    /\ rcell = RootCell_new
    /\ cpre = 0
    /\ seed = NoSeed
    /\ todo = {}

\* signed coordinates: one below the grid, inside it, one above it
Coords == {<<x, y>> \in (-1..W) \X (-1..H) : TRUE}

Spawn(x, y) ==
    /\ panic = "none"
    /\ steps < MaxOps
    /\ \E r \in {CellArray_spawn(cells, x, y, H, W, debug)} :
           /\ cells' = r.cells
           /\ panic' = r.panic
    /\ last' = [op |-> "spawn", x |-> x, y |-> y]
    /\ pre' = cells
    /\ steps' = steps + 1
    /\ UNCHANGED <<todo, seed, debug, H, W, cell_cache, cell, rcell, cpre>>

KillCell(x, y) ==
    /\ panic = "none"
    /\ steps < MaxOps
    /\ \E r \in {CellArray_kill_cell(cells, x, y, H, W, debug)} :
           /\ cells' = r.cells
           /\ panic' = r.panic
    /\ last' = [op |-> "kill_cell", x |-> x, y |-> y]
    /\ pre' = cells
    /\ steps' = steps + 1
    /\ UNCHANGED <<todo, seed, debug, H, W, cell_cache, cell, rcell, cpre>>

Generate ==
    /\ panic = "none"
    /\ steps < MaxOps
    /\ \E r \in {Engine_generate(cells, H, W, debug)} :
           /\ cells' = r.cells
           /\ panic' = r.panic
    /\ cell_cache' = cells
    /\ last' = [op |-> "generate", x |-> 0, y |-> 0]
    /\ pre' = cells
    /\ steps' = steps + 1
    /\ UNCHANGED <<todo, seed, debug, H, W, cell, rcell, cpre>>

Next ==
    \/ \E c \in Coords : Spawn(c[1], c[2])
    \/ \E c \in Coords : KillCell(c[1], c[2])
    \/ Generate

Spec == Init /\ [][Next]_vars

(***************************************************************************)
(* The Engine seeded once on its empty grid (one spawn, the four spawns of *)
(* a 2 x 2 block, or spawn_glider) and then stepped by generate().         *)
(***************************************************************************)
\* the loop `for &(x, y) in &pattern_coords { self.cells.spawn(x, y) }` from its i-th turn on
RECURSIVE SpawnAll(_, _, _, _, _, _)
SpawnAll(r, coords, i, h, w, dbg) ==
    IF i > Len(coords) \/ r.panic # "none" THEN r
    ELSE SpawnAll(CellArray_spawn(r.cells, coords[i][1], coords[i][2], h, w, dbg),
                  coords, i + 1, h, w, dbg)

\* the glider of main.rs: (x+1, y), (x+2, y+1), (x, y+2), (x+1, y+2), (x+2, y+2)
pattern_coords_main(x, y) ==
    << <<x + 1, y>>, <<x + 2, y + 1>>, <<x, y + 2>>, <<x + 1, y + 2>>, <<x + 2, y + 2>> >>

\* pattern_coords of Engine::spawn_glider
pattern_coords(x, y) ==
    << <<x + 2, y>>, <<x + 2, y + 1>>, <<x + 2, y + 2>>, <<x + 1, y + 2>>, <<x, y + 1>> >>

Engine_spawn_glider(g, x, y, h, w, dbg) ==
    SpawnAll([cells |-> g, panic |-> "none"], pattern_coords(x, y), 1, h, w, dbg)

\* the coordinates of the four spawn calls that seed a 2 x 2 block at (x, y)
block_coords(x, y) == << <<x, y>>, <<x + 1, y>>, <<x, y + 1>>, <<x + 1, y + 1>> >>

\* the grid and panic that the seeding calls sd leave on the empty h x w grid
Seeded(sd, h, w, dbg) ==
    LET empty == [cells |-> CellArray_new(h, w), panic |-> "none"]
    IN  CASE sd.kind = "one"    -> CellArray_spawn(empty.cells, sd.x, sd.y, h, w, dbg)
          [] sd.kind = "block"  -> SpawnAll(empty, block_coords(sd.x, sd.y), 1, h, w, dbg)
          [] sd.kind = "glider" -> Engine_spawn_glider(empty.cells, sd.x, sd.y, h, w, dbg)
          [] OTHER              -> empty

InitSeed ==
    /\ debug \in BOOLEAN
    /\ H \in 1..MaxSeedDim
    /\ W \in 1..MaxSeedDim
    /\ cells = CellArray_new(H, W)
    /\ cell_cache = CellArray_new(H, W)
    /\ panic = "none"
    /\ last = NoCall
    /\ pre = CellArray_new(H, W)
    /\ steps = 0
    /\ cell = Cell_new
    /\ rcell = RootCell_new
    /\ cpre = 0
    /\ seed = NoSeed
    /\ todo = {}

SeedCall(kind, x, y) ==
    /\ panic = "none"
    /\ steps = 0
    /\ seed' = [kind |-> kind, x |-> x, y |-> y]
    /\ \E r \in {Seeded(seed', H, W, debug)} :
           /\ cells' = r.cells
           /\ panic' = r.panic
    /\ last' = [op |-> kind, x |-> x, y |-> y]
    /\ pre' = cells
    /\ steps' = 1
    /\ UNCHANGED <<todo, debug, H, W, cell_cache, cell, rcell, cpre>>

SeedOne(x, y) == SeedCall("one", x, y)

SeedBlock(x, y) == SeedCall("block", x, y)

SpawnGlider(x, y) == SeedCall("glider", x, y)

SeedGenerate ==
    /\ panic = "none"
    /\ steps \in 1..MaxGen
    /\ \E r \in {Engine_generate(cells, H, W, debug)} :
           /\ cells' = r.cells
           /\ panic' = r.panic
    /\ cell_cache' = cells
    /\ last' = [op |-> "generate", x |-> 0, y |-> 0]
    /\ pre' = cells
    /\ steps' = steps + 1
    /\ UNCHANGED <<todo, seed, debug, H, W, cell, rcell, cpre>>

NextSeed ==
    \/ \E c \in Coords : SeedOne(c[1], c[2])
    \/ \E c \in Coords : SeedBlock(c[1], c[2])
    \/ \E c \in Coords : SpawnGlider(c[1], c[2])
    \/ SeedGenerate

SpecSeed == InitSeed /\ [][NextSeed]_vars

(***************************************************************************)
(* The Engine after new(), one randomize() and generate() calls.           *)
(* The outcomes of rand::random() are the set heads of the loop turns      *)
(* (x, y) in which it returned true.                                       *)
(***************************************************************************)
\* the turns of `for x in 0..H { for y in 0..W {`, in order
RandOrder(h, w) ==
    [k \in 1..(h * w) |-> <<(k - 1) \div w, (k - 1) % w>>]

\* the loop of randomize() from its k-th turn on
RECURSIVE RandomizeFrom(_, _, _, _, _, _, _)
RandomizeFrom(r, order, k, heads, h, w, dbg) ==
    IF k > Len(order) \/ r.panic # "none" THEN r
    ELSE RandomizeFrom(IF order[k] \in heads
                       THEN CellArray_spawn(r.cells, order[k][1], order[k][2], h, w, dbg)
                       ELSE r,
                       order, k + 1, heads, h, w, dbg)

Engine_randomize(g, h, w, dbg, heads) ==
    RandomizeFrom([cells |-> g, panic |-> "none"], RandOrder(h, w), 1, heads, h, w, dbg)

InitRandom ==
    /\ debug \in BOOLEAN
    /\ H \in 1..MaxRandDim
    /\ W \in 1..MaxRandDim
    /\ cells = CellArray_new(H, W)
    /\ cell_cache = CellArray_new(H, W)
    /\ panic = "none"
    /\ last = NoCall
    /\ pre = CellArray_new(H, W)
    /\ steps = 0
    /\ cell = Cell_new
    /\ rcell = RootCell_new
    /\ cpre = 0
    /\ seed = NoSeed
    /\ todo = {}

Randomize ==
    /\ panic = "none"
    /\ steps = 0
    /\ \E heads \in {S \in SUBSET ((0..(H - 1)) \X (0..(W - 1))) : Cardinality(S) <= MaxHeads} :
           /\ \E r \in {Engine_randomize(cells, H, W, debug, heads)} :
                  /\ cells' = r.cells
                  /\ panic' = r.panic
           /\ seed' = [kind |-> "random", x |-> 0, y |-> 0, heads |-> heads]
    /\ last' = [op |-> "randomize", x |-> 0, y |-> 0]
    /\ pre' = cells
    /\ steps' = 1
    /\ UNCHANGED <<todo, debug, H, W, cell_cache, cell, rcell, cpre>>

RandomGenerate ==
    /\ panic = "none"
    /\ steps \in 1..MaxRandGen
    /\ \E r \in {Engine_generate(cells, H, W, debug)} :
           /\ cells' = r.cells
           /\ panic' = r.panic
    /\ cell_cache' = cells
    /\ last' = [op |-> "generate", x |-> 0, y |-> 0]
    /\ pre' = cells
    /\ steps' = steps + 1
    /\ UNCHANGED <<todo, seed, debug, H, W, cell, rcell, cpre>>

NextRandom ==
    \/ Randomize
    \/ RandomGenerate

SpecRandom == InitRandom /\ [][NextRandom]_vars

(***************************************************************************)
(* One Cell of src/gol/types/cell.rs under its four calls.                 *)
(***************************************************************************)
InitCell ==
    /\ debug \in BOOLEAN
    /\ H = 1
    /\ W = 1
    /\ cells = CellArray_new(1, 1)
    /\ cell_cache = CellArray_new(1, 1)
    /\ panic = "none"
    /\ last = NoCall
    /\ pre = CellArray_new(1, 1)
    /\ steps = 0
    /\ cell = Cell_new
    /\ rcell = RootCell_new
    /\ cpre = 0
    /\ seed = NoSeed
    /\ todo = {}

CellCall(f, r) ==
    /\ panic = "none"
    /\ cell' = r.v
    /\ panic' = r.panic
    /\ cpre' = cell
    /\ last' = [op |-> f, x |-> 0, y |-> 0]
    /\ UNCHANGED <<todo, seed, debug, H, W, cells, cell_cache, pre, steps, rcell>>

CellSpawn == CellCall("spawn", [v |-> Cell_spawn(cell), panic |-> "none"])

CellKill == CellCall("kill", [v |-> Cell_kill(cell), panic |-> "none"])

CellAddNeighbour == CellCall("add_neighbour", Cell_add_neighbour(cell))

CellRemoveNeighbour == CellCall("remove_neighbour", Cell_remove_neighbour(cell, debug))

NextCell ==
    \/ CellSpawn
    \/ CellKill
    \/ CellAddNeighbour
    \/ CellRemoveNeighbour

SpecCell == InitCell /\ [][NextCell]_vars

(***************************************************************************)
(* One Cell of src/cell.rs under its six calls.                            *)
(***************************************************************************)
RootCellCall(f, arg, r) ==
    /\ panic = "none"
    /\ rcell' = r.v
    /\ panic' = r.panic
    /\ cpre' = rcell
    /\ last' = [op |-> f, x |-> arg, y |-> 0]
    /\ UNCHANGED <<todo, seed, debug, H, W, cells, cell_cache, pre, steps, cell>>

RootCellSpawn == RootCellCall("spawn", 0, [v |-> RootCell_spawn(rcell), panic |-> "none"])

RootCellKill == RootCellCall("kill", 0, [v |-> RootCell_kill(rcell), panic |-> "none"])

RootCellClear == RootCellCall("clear", 0, [v |-> RootCell_clear(rcell), panic |-> "none"])

RootCellSetNeighbors(count) ==
    RootCellCall("set_neighbors", count, RootCell_set_neighbors(rcell, count))

RootCellIncrement ==
    RootCellCall("increment_neighbour_count", 0, RootCell_increment_neighbour_count(rcell))

RootCellDecrement ==
    RootCellCall("decrement_neighbour_count", 0,
                 [v |-> RootCell_decrement_neighbour_count(rcell), panic |-> "none"])

NextRootCell ==
    \/ RootCellSpawn
    \/ RootCellKill
    \/ RootCellClear
    \/ \E count \in 0..MaxArg : RootCellSetNeighbors(count)
    \/ RootCellIncrement
    \/ RootCellDecrement

SpecRootCell == InitCell /\ [][NextRootCell]_vars

(***************************************************************************)
(* CellArray of src/gol/cell_array.rs (same code in src/cell.rs), whose    *)
(* cells are the Cell of src/gol/cell.rs (same code as src/cell.rs).       *)
(* cell() and mut_cell() have the body modelled by CellArray_cell and      *)
(* CellArray_mut_cell.                                                     *)
(***************************************************************************)
\* one call f on the cell mut_cell(x, y) of the grid r.cells
RootOnCell(r, x, y, h, w, f, arg) ==
    LET at == CellArray_mut_cell(x, y, h, w)
    IN  IF r.panic # "none" THEN r
        ELSE IF ~InArray(at[1], at[2], h, w) THEN [cells |-> r.cells, panic |-> "index"]
        ELSE LET b   == r.cells[at[1]][at[2]]
                 res == CASE f = "spawn" -> [v |-> RootCell_spawn(b), panic |-> "none"]
                          [] f = "kill" -> [v |-> RootCell_kill(b), panic |-> "none"]
                          [] f = "set_neighbors" -> RootCell_set_neighbors(b, arg)
                          [] f = "increment_neighbour_count" ->
                                 RootCell_increment_neighbour_count(b)
                          [] f = "decrement_neighbour_count" ->
                                 [v |-> RootCell_decrement_neighbour_count(b), panic |-> "none"]
             IN  [cells |-> [r.cells EXCEPT ![at[1]][at[2]] = res.v], panic |-> res.panic]

RECURSIVE RootOnNeighbours(_, _, _, _, _, _)
RootOnNeighbours(r, coords, i, h, w, f) ==
    IF i > Len(coords) \/ r.panic # "none" THEN r
    ELSE RootOnNeighbours(RootOnCell(r, coords[i][1], coords[i][2], h, w, f, 0),
                          coords, i + 1, h, w, f)

RootCellArray_spawn_cell(g, x, y, h, w) ==
    LET neighbour_coordinates == CellArray_neighbour_coordinates(x, y)
        spawned == RootOnCell([cells |-> g, panic |-> "none"], x, y, h, w, "spawn", 0)
    IN  RootOnNeighbours(spawned, neighbour_coordinates, 1, h, w, "increment_neighbour_count")

RootCellArray_kill_cell(g, x, y, h, w) ==
    LET neighbour_coordinates == CellArray_neighbour_coordinates(x, y)
        killed == RootOnCell([cells |-> g, panic |-> "none"], x, y, h, w, "kill", 0)
    IN  RootOnNeighbours(killed, neighbour_coordinates, 1, h, w, "decrement_neighbour_count")

\* reset(): clear() on self.0[i][j] for i in 0..H, j in 0..W
RootCellArray_reset(g, h, w) ==
    [i \in 0..(h - 1) |-> [j \in 0..(w - 1) |-> RootCell_clear(g[i][j])]]

(***************************************************************************)
(* One CellArray of src/gol/cell_array.rs under spawn_cell, kill_cell,     *)
(* reset and, as its tests do, set_neighbors on mut_cell(0, 0).            *)
(***************************************************************************)
RootGridCall(f, x, y, r) ==
    /\ panic = "none"
    /\ steps < MaxRootOps
    /\ cells' = r.cells
    /\ panic' = r.panic
    /\ last' = [op |-> f, x |-> x, y |-> y]
    /\ pre' = cells
    /\ steps' = steps + 1
    /\ UNCHANGED <<todo, seed, debug, H, W, cell_cache, cell, rcell, cpre>>

RootSpawnCell(x, y) ==
    RootGridCall("spawn_cell", x, y, RootCellArray_spawn_cell(cells, x, y, H, W))

RootKillCell(x, y) ==
    RootGridCall("kill_cell", x, y, RootCellArray_kill_cell(cells, x, y, H, W))

RootSetNeighbors(count) ==
    RootGridCall("set_neighbors", count, 0,
                 RootOnCell([cells |-> cells, panic |-> "none"], 0, 0, H, W, "set_neighbors", count))

RootReset ==
    RootGridCall("reset", 0, 0, [cells |-> RootCellArray_reset(cells, H, W), panic |-> "none"])

\* the count handed to ptr::copy_nonoverlapping
memcopy_count(h, w) == h * w

\* the cells in one unit of the copy: self.0.as_ptr() points at rows [Cell; W]
memcopy_unit_cells(h, w) == w

\* the cells read from self.0 and written to other.0
memcopy_cells(h, w) == memcopy_count(h, w) * memcopy_unit_cells(h, w)

\* what a copy of n cells between two arrays of h * w cells can do: stay
\* inside them, or run past their ends, where the build either goes on with
\* the memory behind `other` overwritten or stops the process
memcopy_outcomes(n, h, w) == IF n <= h * w THEN {"none"} ELSE {"none", "fault"}

\* self.memcopy(&mut other), other being cell_cache
RootMemcopy ==
    /\ panic = "none"
    /\ steps < MaxRootOps
    /\ panic' \in memcopy_outcomes(memcopy_cells(H, W), H, W)
    /\ cell_cache' = cells
    /\ last' = [op |-> "memcopy", x |-> memcopy_cells(H, W), y |-> 0]
    /\ pre' = cells
    /\ steps' = steps + 1
    /\ UNCHANGED <<todo, seed, debug, H, W, cells, cell, rcell, cpre>>

NextRootGrid ==
    \/ \E x \in 0..(W - 1) : \E y \in 0..(H - 1) : RootSpawnCell(x, y)
    \/ \E x \in 0..(W - 1) : \E y \in 0..(H - 1) : RootKillCell(x, y)
    \/ \E count \in 0..MaxArg : RootSetNeighbors(count)
    \/ RootReset
    \/ RootMemcopy

SpecRootGrid == Init /\ [][NextRootGrid]_vars

(***************************************************************************)
(* solve() of src/main.rs on the CellArray of src/cell.rs.                 *)
(***************************************************************************)
\* width() returns H
RootCellArray_width(h, w) == h

\* height() returns W
RootCellArray_height(h, w) == w

\* the turns (x, y) of `for x in 0..rows - 1 { for y in 0..cols - 1 {`, in order
SolveOrder(h, w) ==
    LET rows == RootCellArray_width(h, w)
        cols == RootCellArray_height(h, w)
    IN  [k \in 1..((rows - 1) * (cols - 1)) |-> <<(k - 1) \div (cols - 1), (k - 1) % (cols - 1)>>]

\* the body of the loop of solve() at (x, y): r is cell_array, copy is cell_array_copy
SolveAt(r, copy, x, y, h, w) ==
    LET at == CellArray_mut_cell(x, y, h, w)
    IN  IF ~InArray(at[1], at[2], h, w) THEN [cells |-> r.cells, panic |-> "index"]
        ELSE LET c == copy[at[1]][at[2]]
                 is_alive == RootCell_is_alive(c)
                 neighbour_count == RootCell_neighbour_cnt(c)
             IN  IF is_alive
                 THEN IF neighbour_count < 2 \/ neighbour_count > 3
                      THEN RootCellArray_kill_cell(r.cells, x, y, h, w)
                      ELSE r
                 ELSE IF neighbour_count = 3
                      THEN RootCellArray_spawn_cell(r.cells, x, y, h, w)
                      ELSE r

RECURSIVE SolveScan(_, _, _, _, _, _)
SolveScan(r, copy, scan, k, h, w) ==
    IF k > Len(scan) \/ r.panic # "none" THEN r
    ELSE SolveScan(SolveAt(r, copy, scan[k][1], scan[k][2], h, w), copy, scan, k + 1, h, w)

\* solve(): cell_array_copy.clone_from(&cell_array), then the scan
solve(g, h, w) == SolveScan([cells |-> g, panic |-> "none"], g, SolveOrder(h, w), 1, h, w)

InitMain ==
    /\ debug \in BOOLEAN
    /\ H \in 1..MaxMainDim
    /\ W \in 1..MaxMainDim
    /\ cells = CellArray_new(H, W)
    /\ cell_cache = CellArray_new(H, W)
    /\ panic = "none"
    /\ last = NoCall
    /\ pre = CellArray_new(H, W)
    /\ steps = 0
    /\ cell = Cell_new
    /\ rcell = RootCell_new
    /\ cpre = 0
    /\ seed = NoSeed
    /\ todo = {}

MainCall(f, x, y, r) ==
    /\ panic = "none"
    /\ steps < MaxMainOps
    /\ cells' = r.cells
    /\ panic' = r.panic
    /\ last' = [op |-> f, x |-> x, y |-> y]
    /\ pre' = cells
    /\ steps' = steps + 1
    /\ UNCHANGED <<todo, seed, debug, H, W, cell_cache, cell, rcell, cpre>>

\* spawn_cell on a dead cell
MainSpawnCell(x, y) ==
    /\ ~RootCell_is_alive(CellArray_cell(cells, x, y, H, W))
    /\ MainCall("spawn_cell", x, y, RootCellArray_spawn_cell(cells, x, y, H, W))

\* kill_cell on an alive cell
MainKillCell(x, y) ==
    /\ RootCell_is_alive(CellArray_cell(cells, x, y, H, W))
    /\ MainCall("kill_cell", x, y, RootCellArray_kill_cell(cells, x, y, H, W))

Solve ==
    /\ panic = "none"
    /\ steps < MaxMainOps
    /\ \E r \in {solve(cells, H, W)} :
           /\ cells' = r.cells
           /\ panic' = r.panic
    /\ cell_cache' = cells
    /\ last' = [op |-> "solve", x |-> 0, y |-> 0]
    /\ pre' = cells
    /\ steps' = steps + 1
    /\ UNCHANGED <<todo, seed, debug, H, W, cell, rcell, cpre>>

NextMain ==
    \/ \E x \in 0..(W - 1) : \E y \in 0..(H - 1) : MainSpawnCell(x, y)
    \/ \E x \in 0..(W - 1) : \E y \in 0..(H - 1) : MainKillCell(x, y)
    \/ Solve

SpecMain == InitMain /\ [][NextMain]_vars

(***************************************************************************)
(* Two spawn / kill_cell calls, one after the other, on the new CellArray  *)
(* of src/gol/types: seed is the first call, last the second.              *)
(***************************************************************************)
InitPair ==
    /\ debug \in BOOLEAN
    /\ H \in 1..MaxPairH
    /\ W \in 1..MaxPairW
    /\ cells = CellArray_new(H, W)
    /\ cell_cache = CellArray_new(H, W)
    /\ panic = "none"
    /\ last = NoCall
    /\ pre = CellArray_new(H, W)
    /\ steps = 0
    /\ cell = Cell_new
    /\ rcell = RootCell_new
    /\ cpre = 0
    /\ seed = NoSeed
    /\ todo = {}

PairCall(f, x, y, r) ==
    /\ cells' = r.cells
    /\ panic' = r.panic
    /\ seed' = IF steps = 0 THEN [kind |-> f, x |-> x, y |-> y] ELSE seed
    /\ last' = [op |-> f, x |-> x, y |-> y]
    /\ pre' = cells
    /\ steps' = steps + 1
    /\ UNCHANGED <<todo, debug, H, W, cell_cache, cell, rcell, cpre>>

PairSpawn(x, y) ==
    /\ panic = "none"
    /\ steps \in 0..1
    /\ \E r \in {CellArray_spawn(cells, x, y, H, W, debug)} : PairCall("spawn", x, y, r)

PairKillCell(x, y) ==
    /\ panic = "none"
    /\ steps \in 0..1
    /\ \E r \in {CellArray_kill_cell(cells, x, y, H, W, debug)} : PairCall("kill_cell", x, y, r)

NextPair ==
    \/ \E x \in 0..(W - 1) : \E y \in 0..(H - 1) : PairSpawn(x, y)
    \/ \E x \in 0..(W - 1) : \E y \in 0..(H - 1) : PairKillCell(x, y)

SpecPair == InitPair /\ [][NextPair]_vars

(***************************************************************************)
(* Field of src/field.rs. Its Cell has new, spawn, kill, set_neighbors,    *)
(* neighbour_cnt, is_alive and clear with the bodies of src/cell.rs.       *)
(* x and y are usize.                                                      *)
(***************************************************************************)
\* the two assert_eq! of cell() and mut_cell()
Field_accepts(x, y, h, w) == x < w /\ y < h

\* cell(x, y): the byte read
Field_cell(g, x, y, h, w) ==
    IF Field_accepts(x, y, h, w)
    THEN [v |-> g[y][x], panic |-> "none"]
    ELSE [v |-> 0, panic |-> "assert"]

\* mut_cell(x, y) followed by the call f on the cell handed out
Field_mut_cell(g, x, y, h, w, f, arg) ==
    IF ~Field_accepts(x, y, h, w) THEN [cells |-> g, panic |-> "assert"]
    ELSE LET b   == g[y][x]
             res == CASE f = "spawn" -> [v |-> RootCell_spawn(b), panic |-> "none"]
                      [] f = "kill" -> [v |-> RootCell_kill(b), panic |-> "none"]
                      [] f = "set_neighbors" -> RootCell_set_neighbors(b, arg)
         IN  [cells |-> [g EXCEPT ![y][x] = res.v], panic |-> res.panic]

\* reset(): clear() on cells[i][j] for i in 0..H, j in 0..W
Field_reset(g, h, w) ==
    [i \in 0..(h - 1) |-> [j \in 0..(w - 1) |-> RootCell_clear(g[i][j])]]

InitField ==
    /\ debug \in BOOLEAN
    /\ H \in 1..MaxFieldDim
    /\ W \in 1..MaxFieldDim
    /\ cells = CellArray_new(H, W)
    /\ cell_cache = CellArray_new(H, W)
    /\ panic = "none"
    /\ last = NoCall
    /\ pre = CellArray_new(H, W)
    /\ steps = 0
    /\ cell = Cell_new
    /\ rcell = RootCell_new
    /\ cpre = 0
    /\ seed = NoSeed
    /\ todo = {}

\* let c = field.cell(x, y): rcell is the byte read
FieldCell(x, y) ==
    /\ panic = "none"
    /\ steps < MaxFieldOps
    /\ \E r \in {Field_cell(cells, x, y, H, W)} :
           /\ rcell' = IF r.panic = "none" THEN r.v ELSE rcell
           /\ panic' = r.panic
    /\ last' = [op |-> "cell", x |-> x, y |-> y]
    /\ pre' = cells
    /\ steps' = steps + 1
    /\ UNCHANGED <<todo, seed, debug, H, W, cells, cell_cache, cell, cpre>>

FieldMutCell(x, y, f, arg) ==
    /\ panic = "none"
    /\ steps < MaxFieldOps
    /\ \E r \in {Field_mut_cell(cells, x, y, H, W, f, arg)} :
           /\ cells' = r.cells
           /\ panic' = r.panic
    /\ last' = [op |-> "mut_cell", x |-> x, y |-> y]
    /\ seed' = [kind |-> f, x |-> arg, y |-> 0]
    /\ pre' = cells
    /\ steps' = steps + 1
    /\ UNCHANGED <<todo, debug, H, W, cell_cache, cell, rcell, cpre>>

FieldReset ==
    /\ panic = "none"
    /\ steps < MaxFieldOps
    /\ cells' = Field_reset(cells, H, W)
    /\ last' = [op |-> "reset", x |-> 0, y |-> 0]
    /\ pre' = cells
    /\ steps' = steps + 1
    /\ UNCHANGED <<todo, seed, debug, H, W, panic, cell_cache, cell, rcell, cpre>>

NextField ==
    \/ \E x \in 0..W : \E y \in 0..H : FieldCell(x, y)
    \/ \E x \in 0..W : \E y \in 0..H : FieldMutCell(x, y, "spawn", 0)
    \/ \E x \in 0..W : \E y \in 0..H : FieldMutCell(x, y, "kill", 0)
    \/ \E x \in 0..W : \E y \in 0..H : \E count \in {1, 8, MaxArg} :
           FieldMutCell(x, y, "set_neighbors", count)
    \/ FieldReset

SpecField == InitField /\ [][NextField]_vars

(***************************************************************************)
(* The CellArray of src/gol/types under disciplined calls: spawn on dead   *)
(* cells, kill_cell on alive cells. seed is the call before the last one   *)
(* and cell_cache the grid before that call.                               *)
(***************************************************************************)
InitDisc ==
    /\ debug \in BOOLEAN
    /\ H \in 1..MaxDiscDim
    /\ W \in 1..MaxDiscDim
    /\ cells = CellArray_new(H, W)
    /\ cell_cache = CellArray_new(H, W)
    /\ panic = "none"
    /\ last = NoCall
    /\ pre = CellArray_new(H, W)
    /\ steps = 0
    /\ cell = Cell_new
    /\ rcell = RootCell_new
    /\ cpre = 0
    /\ seed = NoSeed
    /\ todo = {}

DiscCall(f, x, y, r) ==
    /\ cells' = r.cells
    /\ panic' = r.panic
    /\ seed' = [kind |-> last.op, x |-> last.x, y |-> last.y]
    /\ cell_cache' = pre
    /\ last' = [op |-> f, x |-> x, y |-> y]
    /\ pre' = cells
    /\ steps' = steps + 1
    /\ UNCHANGED <<todo, debug, H, W, cell, rcell, cpre>>

DiscSpawn(x, y) ==
    /\ panic = "none"
    /\ steps < MaxDiscOps
    /\ ~Cell_alive(CellArray_cell(cells, x, y, H, W))
    /\ \E r \in {CellArray_spawn(cells, x, y, H, W, debug)} : DiscCall("spawn", x, y, r)

DiscKillCell(x, y) ==
    /\ panic = "none"
    /\ steps < MaxDiscOps
    /\ Cell_alive(CellArray_cell(cells, x, y, H, W))
    /\ \E r \in {CellArray_kill_cell(cells, x, y, H, W, debug)} : DiscCall("kill_cell", x, y, r)

NextDisc ==
    \/ \E x \in 0..(W - 1) : \E y \in 0..(H - 1) : DiscSpawn(x, y)
    \/ \E x \in 0..(W - 1) : \E y \in 0..(H - 1) : DiscKillCell(x, y)

SpecDisc == InitDisc /\ [][NextDisc]_vars

(***************************************************************************)
(* The Engine on square grids under spawns of dead cells and generate().   *)
(***************************************************************************)
InitSquare ==
    /\ debug \in BOOLEAN
    /\ H \in 1..MaxSquareDim
    /\ W = H
    /\ cells = CellArray_new(H, W)
    /\ cell_cache = CellArray_new(H, W)
    /\ panic = "none"
    /\ last = NoCall
    /\ pre = CellArray_new(H, W)
    /\ steps = 0
    /\ cell = Cell_new
    /\ rcell = RootCell_new
    /\ cpre = 0
    /\ seed = NoSeed
    /\ todo = {}

\* spawn on a dead cell; the spawns made between two generate() calls are
\* made in row-major order, which still spawns every set of dead cells
SquareSpawn(x, y) ==
    /\ panic = "none"
    /\ steps < MaxSquareOps
    /\ ~Cell_alive(CellArray_cell(cells, x, y, H, W))
    /\ last.op = "spawn" => y * W + x > last.y * W + last.x
    /\ \E r \in {CellArray_spawn(cells, x, y, H, W, debug)} :
           /\ cells' = r.cells
           /\ panic' = r.panic
    /\ last' = [op |-> "spawn", x |-> x, y |-> y]
    /\ pre' = cells
    /\ steps' = steps + 1
    /\ UNCHANGED <<todo, seed, debug, H, W, cell_cache, cell, rcell, cpre>>

SquareGenerate ==
    /\ panic = "none"
    /\ steps < MaxSquareOps
    /\ \E r \in {Engine_generate(cells, H, W, debug)} :
           /\ cells' = r.cells
           /\ panic' = r.panic
    /\ cell_cache' = cells
    /\ last' = [op |-> "generate", x |-> 0, y |-> 0]
    /\ pre' = cells
    /\ steps' = steps + 1
    /\ UNCHANGED <<todo, seed, debug, H, W, cell, rcell, cpre>>

NextSquare ==
    \/ \E x \in 0..(W - 1) : \E y \in 0..(H - 1) : SquareSpawn(x, y)
    \/ SquareGenerate

SpecSquare == InitSquare /\ [][NextSquare]_vars

(***************************************************************************)
(* generate() on a seeded square grid with the turns of its scan made in   *)
(* any order: the loop body of Engine::generate is applied turn by turn.   *)
(***************************************************************************)
InitOrder ==
    /\ debug \in BOOLEAN
    /\ H \in 1..MaxOrderDim
    /\ W = H
    /\ cells = CellArray_new(H, W)
    /\ cell_cache = CellArray_new(H, W)
    /\ panic = "none"
    /\ last = NoCall
    /\ pre = CellArray_new(H, W)
    /\ steps = 0
    /\ cell = Cell_new
    /\ rcell = RootCell_new
    /\ cpre = 0
    /\ seed = NoSeed
    /\ todo = {}

\* the turns of the scan whose loop body kills or spawns on the snapshot g
ActingTurns(g, h, w, dbg) ==
    {c \in {ScanOrder(h, w)[k] : k \in DOMAIN ScanOrder(h, w)} :
        GenerateAt([cells |-> g, panic |-> "none"], g, c[1], c[2], h, w, dbg)
            # [cells |-> g, panic |-> "none"]}

\* cell_cache.clone_from(&cells); the turns that neither kill nor spawn
\* leave the grid as it is and are made at once
OrderBegin ==
    /\ panic = "none"
    /\ steps \in 1..MaxOrderGen
    /\ todo = {}
    /\ cell_cache' = cells
    /\ pre' = cells
    /\ todo' = ActingTurns(cells, H, W, debug)
    /\ last' = [op |-> "scan", x |-> 0, y |-> 0]
    /\ steps' = steps + 1
    /\ UNCHANGED <<debug, H, W, cells, panic, cell, rcell, cpre, seed>>

\* one turn of the scan, taken in any order
OrderTurn(c) ==
    /\ panic = "none"
    /\ c \in todo
    /\ \E r \in {GenerateAt([cells |-> cells, panic |-> "none"], cell_cache, c[1], c[2], H, W, debug)} :
           /\ cells' = r.cells
           /\ panic' = r.panic
    /\ todo' = todo \ {c}
    /\ UNCHANGED <<debug, H, W, cell_cache, last, pre, steps, cell, rcell, cpre, seed>>

NextOrder ==
    \/ \E c \in Coords : SeedOne(c[1], c[2])
    \/ \E c \in Coords : SeedBlock(c[1], c[2])
    \/ \E c \in Coords : SpawnGlider(c[1], c[2])
    \/ OrderBegin
    \/ \E c \in todo : OrderTurn(c)

SpecOrder == InitOrder /\ [][NextOrder]_vars

(***************************************************************************)
(* Reference notions the properties are stated with.                       *)
(***************************************************************************)
\* every cached count of grid g equals the brute-force count of that cell
CountInvariantOf(g, h, w) ==
    \A y \in 0..(h - 1) : \A x \in 0..(w - 1) :
        Cell_neighbours(g[y][x]) = CellArray_calc_neighbours(g, x, y, h, w)

\* the cell (x, y) of grid g is alive in the synchronous Life successor of g
LifeRule(g, x, y, h, w) ==
    LET n == CellArray_calc_neighbours(g, x, y, h, w)
    IN  IF Cell_alive(g[y][x]) THEN n \in {2, 3} ELSE n = 3

(***************************************************************************)
(* Properties.                                                             *)
(***************************************************************************)

\* C1: starting from the all-dead grid, every spawn(x, y) and kill_cell(x, y)
\* call with signed coordinates, on alive and on dead cells alike, returns
\* and leaves every cached neighbour count equal to the number of alive
\* cells among the 8 wrapped neighbours.
C1_CountInvariant ==
    /\ last.op = "new" => CountInvariantOf(cells, H, W)
    /\ (last.op \in {"spawn", "kill_cell"} /\ CountInvariantOf(pre, H, W)) =>
           (panic = "none" /\ CountInvariantOf(cells, H, W))

\* C2: generate() called on a grid that satisfies the count invariant is one
\* synchronous Life step: a cell is alive afterwards iff it was alive with
\* 2 or 3 live neighbours or dead with exactly 3, on every H x W grid.
C2_GenerateIsLifeStep ==
    (last.op = "generate" /\ CountInvariantOf(pre, H, W)) =>
        /\ panic = "none"
        /\ \A y \in 0..(H - 1) : \A x \in 0..(W - 1) :
               Cell_alive(cells[y][x]) <=> LifeRule(pre, x, y, H, W)

\* C3: generate() called on a grid that satisfies the count invariant returns
\* a grid that satisfies it, on every H x W grid.
C3_GeneratePreservesCounts ==
    (last.op = "generate" /\ CountInvariantOf(pre, H, W)) =>
        (panic = "none" /\ CountInvariantOf(cells, H, W))

\* C4: for the signed coordinates (x, y) of every spawn and kill_cell call
\* and their shifts (x + k*W, y + l*H), cell and mut_cell address column
\* x mod W and row y mod H: the index is inside the array, the two agree,
\* the shifted coordinates address the same cell, and a cell spawned at
\* (x, y) is read back alive at (x mod W, y mod H).
C4_ToroidalAddressing ==
    last.op \in {"spawn", "kill_cell"} =>
        /\ \A k \in -2..2 :
               LET xx == last.x + k * W
               IN  /\ mut_cell_wrapped_x(xx, W) \in 0..(W - 1)
                   /\ mut_cell_wrapped_x(xx, W) = xx % W
                   /\ cell_wrapped_x(xx, W) = mut_cell_wrapped_x(xx, W)
                   /\ mut_cell_wrapped_x(xx, W) = mut_cell_wrapped_x(last.x, W)
        /\ \A l \in -2..2 :
               LET yy == last.y + l * H
               IN  /\ mut_cell_wrapped_y(yy, H) \in 0..(H - 1)
                   /\ mut_cell_wrapped_y(yy, H) = yy % H
                   /\ cell_wrapped_y(yy, H) = mut_cell_wrapped_y(yy, H)
                   /\ mut_cell_wrapped_y(yy, H) = mut_cell_wrapped_y(last.y, H)
        /\ panic # "index"
        /\ last.op = "spawn" =>
               /\ Cell_alive(cells[last.y % H][last.x % W])
               /\ \A k \in -1..1 : \A l \in -1..1 :
                      Cell_alive(CellArray_cell(cells, last.x + k * W, last.y + l * H, H, W))

\* a cell spawned at the corner (-1, H) of a 3 x 3 grid is alive at (W-1, 0)
C4_Witness ==
    /\ H = 3 /\ W = 3
    /\ last = [op |-> "spawn", x |-> -1, y |-> 3]
    /\ panic = "none"
    /\ Cell_alive(cells[0][2])

\* C5: remove_neighbour() on a count of 0 leaves the byte unchanged and does
\* not panic; on a count n > 0 it yields n - 1 with the alive bit unchanged.
C5_DecrementFloor ==
    last.op = "remove_neighbour" =>
        IF Cell_neighbours(cpre) = 0
        THEN panic = "none" /\ cell = cpre
        ELSE /\ panic = "none"
             /\ Cell_neighbours(cell) = Cell_neighbours(cpre) - 1
             /\ Cell_alive(cell) = Cell_alive(cpre)

\* C6: add_neighbour() on a count n < 8 yields n + 1 with the alive bit
\* unchanged; on a count of 8 it panics and stores neither 9 nor 0.
C6_IncrementCeiling ==
    last.op = "add_neighbour" =>
        /\ Cell_neighbours(cpre) < 8 =>
               /\ panic = "none"
               /\ Cell_neighbours(cell) = Cell_neighbours(cpre) + 1
               /\ Cell_alive(cell) = Cell_alive(cpre)
        /\ Cell_neighbours(cpre) = 8 =>
               /\ panic = "assert"
               /\ Cell_neighbours(cell) = 8
               /\ cell = cpre

\* add_neighbour() was called on a count of 8
C6_Witness ==
    /\ last.op = "add_neighbour"
    /\ Cell_neighbours(cpre) = 8
    /\ panic = "assert"

\* C7: kill() clears the alive bit and nothing else, a second kill() changes
\* nothing, and spawn, add_neighbour, kill leaves the byte 0b00000010.
C7_KillClearsAliveOnly ==
    /\ last.op = "kill" =>
           /\ ~Cell_alive(cell)
           /\ Cell_neighbours(cell) = Cell_neighbours(cpre)
           /\ Shr1(cell) = Shr1(cpre)
           /\ Cell_kill(cell) = cell
    /\ Cell_kill(Cell_add_neighbour(Cell_spawn(Cell_new)).v) = 2

\* kill() was called on an alive cell that has neighbours
C7_Witness ==
    /\ last.op = "kill"
    /\ Cell_alive(cpre)
    /\ Cell_neighbours(cpre) > 0
    /\ ~Cell_alive(cell)

\* C8: spawn() on a cell with count c in 0..8 leaves it alive with count c,
\* byte 2*c + 1, and a second spawn() changes nothing; so does the spawn()
\* of src/cell.rs after set_neighbors(c).
C8_SpawnSetsAliveOnly ==
    /\ (last.op = "spawn" /\ Cell_neighbours(cpre) <= 8) =>
           /\ Cell_alive(cell)
           /\ Cell_neighbours(cell) = Cell_neighbours(cpre)
           /\ cell = 2 * Cell_neighbours(cpre) + 1
           /\ Cell_spawn(cell) = cell
    /\ \A c \in 0..8 :
           LET set == RootCell_set_neighbors(RootCell_new, c).v
           IN  /\ RootCell_spawn(set) = 2 * c + 1
               /\ RootCell_spawn(RootCell_spawn(set)) = 2 * c + 1

\* spawn() was called on a dead cell with 4 neighbours
C8_Witness ==
    /\ last.op = "spawn"
    /\ cpre = 8
    /\ cell = 9

\* C9: along every sequence of calls on the Cell of src/cell.rs that does
\* not panic, neighbour_cnt() is in 0..8, and increment_neighbour_count()
\* on a count of 8 panics instead of storing 9.
C9_CountRange ==
    /\ panic = "none" => RootCell_neighbour_cnt(rcell) \in 0..8
    /\ (last.op = "increment_neighbour_count" /\ RootCell_neighbour_cnt(cpre) = 8) =>
           (panic = "assert" /\ RootCell_neighbour_cnt(rcell) = 8)

\* C10: in every reachable state of the Cell of src/cell.rs the byte is
\* alive + 2 * neighbour_cnt(), bits 5-7 are zero, and alive with 8
\* neighbours is 0b00010001.
C10_BitPacking ==
    /\ rcell = (IF RootCell_is_alive(rcell) THEN 1 ELSE 0) + 2 * RootCell_neighbour_cnt(rcell)
    /\ rcell \div 32 = 0
    /\ (RootCell_is_alive(rcell) /\ RootCell_neighbour_cnt(rcell) = 8) => rcell = 17

\* spawn() was called on a dead cell with 8 neighbours
C10_Witness ==
    /\ last.op = "spawn"
    /\ cpre = 16
    /\ rcell = 17

\* C11: after reset() every cell of the H x W grid is the byte 0, whatever
\* the grid held before, and a second reset() changes nothing.
C11_Reset ==
    last.op = "reset" =>
        /\ \A y \in 0..(H - 1) : \A x \in 0..(W - 1) :
               /\ cells[y][x] = 0
               /\ ~RootCell_is_alive(cells[y][x])
               /\ RootCell_neighbour_cnt(cells[y][x]) = 0
        /\ RootCellArray_reset(cells, H, W) = cells

\* reset() was called on a 3 x 3 grid whose cell (1, 1) was alive and whose
\* cell (0, 0) had one neighbour
C11_Witness ==
    /\ H = 3 /\ W = 3
    /\ last.op = "reset"
    /\ pre[1][1] = 1
    /\ pre[0][0] = 2
    /\ cells[1][1] = 0
    /\ cells[0][0] = 0

\* the neighbour counts test_glider expects: GliderTable[x + 1][y + 1] for column x, row y
GliderTable ==
    << <<1, 1, 2, 1, 0>>,
       <<3, 5, 3, 2, 1>>,
       <<1, 3, 2, 2, 1>>,
       <<2, 3, 2, 1, 1>>,
       <<1, 1, 1, 0, 0>> >>

\* C12: on the empty 5 x 5 grid, the spawns of (2,0), (2,1), (2,2), (1,2),
\* (0,1) leave exactly those five cells alive, the cached counts of the
\* table of test_glider (cell (0,0) is the byte 2, cell (0,1) the byte 3),
\* and every cached count equal to the brute-force count.
C12_GliderTable ==
    (H = 5 /\ W = 5 /\ last = [op |-> "glider", x |-> 0, y |-> 0]) =>
        /\ panic = "none"
        /\ \A x \in 0..4 : \A y \in 0..4 :
               /\ Cell_alive(cells[y][x]) <=>
                      <<x, y>> \in {<<2, 0>>, <<2, 1>>, <<2, 2>>, <<1, 2>>, <<0, 1>>}
               /\ Cell_neighbours(cells[y][x]) = GliderTable[x + 1][y + 1]
               /\ Cell_neighbours(cells[y][x]) = CellArray_calc_neighbours(cells, x, y, H, W)
        /\ cells[0][0] = 2
        /\ cells[1][0] = 3

\* spawn_glider(0, 0) was called on the empty 5 x 5 grid
C12_Witness ==
    /\ H = 5 /\ W = 5
    /\ last = [op |-> "glider", x |-> 0, y |-> 0]
    /\ Cell_alive(cells[2][1])
    /\ Cell_neighbours(cells[1][1]) = 5

\* the alive cells of grid g
AliveCells(g, h, w) == {c \in (0..(w - 1)) \X (0..(h - 1)) : Cell_alive(g[c[2]][c[1]])}

\* C13: when the only live cell of the Engine comes from one spawn on the
\* empty grid and has no live neighbour, the first generate() returns and
\* leaves every cell dead with neighbour count 0.
C13_LoneCellDies ==
    (seed.kind = "one" /\ last.op = "generate" /\ steps = 2
       /\ Cell_neighbours(CellArray_cell(pre, seed.x, seed.y, H, W)) = 0) =>
        /\ panic = "none"
        /\ \A y \in 0..(H - 1) : \A x \in 0..(W - 1) : cells[y][x] = 0

\* C14: when the four spawns of a 2 x 2 block on the empty grid leave exactly
\* four cells alive, each block cell with exactly 3 live neighbours, the
\* live grid after every number of generate() calls is the seeded grid.
C14_BlockStillLife ==
    LET sd == Seeded(seed, H, W, debug)
    IN  (/\ seed.kind = "block"
         /\ sd.panic = "none"
         /\ Cardinality(AliveCells(sd.cells, H, W)) = 4
         /\ \A i \in 1..4 :
                LET b == CellArray_cell(sd.cells, block_coords(seed.x, seed.y)[i][1],
                                        block_coords(seed.x, seed.y)[i][2], H, W)
                IN  Cell_alive(b) /\ Cell_neighbours(b) = 3) =>
            (panic = "none" /\ cells = sd.cells)

\* a block seeded across the corner of a 4 x 4 grid, after MaxGen generate() calls
C14_Witness ==
    /\ H = 4 /\ W = 4
    /\ seed = [kind |-> "block", x |-> -1, y |-> -1]
    /\ last.op = "generate"
    /\ steps = MaxGen + 1
    /\ AliveCells(cells, H, W) = {<<3, 3>>, <<0, 3>>, <<3, 0>>, <<0, 0>>}
    /\ \A c \in AliveCells(cells, H, W) : Cell_neighbours(cells[c[2]][c[1]]) = 3

\* C15: in the Cell of src/cell.rs, decrement_neighbour_count() on a count of 0
\* returns without a panic and leaves the byte as it was; on a count n in 1..8
\* it leaves count n - 1 and the alive bit as it was.
C15_RootDecrementFloor ==
    last.op = "decrement_neighbour_count" =>
        /\ panic = "none"
        /\ RootCell_neighbour_cnt(cpre) = 0 => rcell = cpre
        /\ RootCell_neighbour_cnt(cpre) \in 1..8 =>
               /\ RootCell_neighbour_cnt(rcell) = RootCell_neighbour_cnt(cpre) - 1
               /\ RootCell_is_alive(rcell) <=> RootCell_is_alive(cpre)

\* a decrement at the floor of an alive cell
C15_Witness ==
    /\ last.op = "decrement_neighbour_count"
    /\ cpre = 1
    /\ rcell = 1
    /\ panic = "none"

\* C16: in the Cell of src/cell.rs, set_neighbors(c) with c in 0..8 makes
\* neighbour_cnt() return c, keeps the alive bit and leaves the byte
\* 2 * c + alive; with c > 8 it panics and the cell keeps its value.
C16_SetNeighborsRoundTrip ==
    last.op = "set_neighbors" =>
        IF last.x \in 0..8
        THEN /\ panic = "none"
             /\ RootCell_neighbour_cnt(rcell) = last.x
             /\ RootCell_is_alive(rcell) <=> RootCell_is_alive(cpre)
             /\ rcell = 2 * last.x + (IF RootCell_is_alive(cpre) THEN 1 ELSE 0)
        ELSE /\ panic = "assert"
             /\ rcell = cpre

\* set_neighbors(8) on an alive cell that had another count
C16_Witness ==
    /\ last = [op |-> "set_neighbors", x |-> 8, y |-> 0]
    /\ RootCell_is_alive(cpre)
    /\ RootCell_neighbour_cnt(cpre) = 3
    /\ rcell = 17

\* set_neighbors(9) panics and keeps the byte
C16_WitnessPanic ==
    /\ last = [op |-> "set_neighbors", x |-> 9, y |-> 0]
    /\ cpre = 7
    /\ rcell = 7
    /\ panic = "assert"

\* the turns of the scan of generate() that hand out the cell at <<row, column>> p
Visits(scan, p) ==
    {k \in DOMAIN scan : CellArray_mut_cell(scan[k][1], scan[k][2], H, W) = p}

\* the scan kills a cell whose cached byte is b
KillDecided(b) == Cell_alive(b) /\ (Cell_neighbours(b) < 2 \/ Cell_neighbours(b) > 3)

\* the scan spawns a cell whose cached byte is b
SpawnDecided(b) == ~Cell_alive(b) /\ Cell_neighbours(b) = 3

\* C17: after generate(), cell_cache is the live grid as it was when the call
\* started, and the alive flag of every cell is the one decided from the flag
\* and count that cell had at the start, whatever the scan did before it.
C17_SnapshotSemantics ==
    last.op = "generate" =>
        /\ cell_cache = pre
        /\ panic = "none" =>
               \A scan \in {ScanOrder(H, W)} : \A y \in 0..(H - 1) : \A x \in 0..(W - 1) :
                   Cell_alive(cells[y][x]) <=>
                       IF Visits(scan, <<y, x>>) # {} /\ KillDecided(pre[y][x]) THEN FALSE
                       ELSE IF Visits(scan, <<y, x>>) # {} /\ SpawnDecided(pre[y][x]) THEN TRUE
                       ELSE Cell_alive(pre[y][x])

\* three live cells of a 3 x 3 torus keep living while the six dead ones are
\* spawned one after the other, each spawn raising the live counts
C17_Witness ==
    /\ H = 3 /\ W = 3
    /\ last.op = "generate"
    /\ panic = "none"
    /\ cell_cache = pre
    /\ Cardinality(AliveCells(pre, H, W)) = 3
    /\ Cardinality(AliveCells(cells, H, W)) = 9

\* C19: the scan of generate() hands out every physical cell of the H x W
\* grid in exactly one of its turns.
C19_ScanCoverage ==
    last.op = "generate" =>
        \A scan \in {ScanOrder(H, W)} : \A y \in 0..(H - 1) : \A x \in 0..(W - 1) :
            Cardinality(Visits(scan, <<y, x>>)) = 1

\* C20: randomize() on the new Engine returns without a panic, spawns every
\* physical cell in at most one turn, and leaves every cached count equal to
\* the number of live wrapped neighbours.
C20_RandomizeKeepsCounts ==
    last.op = "randomize" =>
        /\ panic = "none"
        /\ \A y \in 0..(H - 1) : \A x \in 0..(W - 1) :
               Cardinality({c \in seed.heads : CellArray_mut_cell(c[1], c[2], H, W) = <<y, x>>}) <= 1
        /\ CountInvariantOf(cells, H, W)

\* the number of times the cell at <<row, column>> p occurs among the 8
\* wrapped neighbour coordinates of (x, y)
Occurrences(p, x, y) ==
    Cardinality({i \in 1..8 :
        CellArray_mut_cell(CellArray_neighbour_coordinates(x, y)[i][1],
                           CellArray_neighbour_coordinates(x, y)[i][2], H, W) = p})

\* C18: spawn(x, y) returns with the wrapped target cell alive and the count
\* of every physical cell raised by the number of times the cell occurs among
\* the 8 wrapped neighbours; kill_cell(x, y) returns with the target dead and
\* the counts lowered by that number; every other alive bit and every count
\* of a cell that is no neighbour is as before.
C18_SpawnKillFrame ==
    last.op \in {"spawn", "kill_cell"} =>
        /\ panic = "none"
        /\ \A y \in 0..(H - 1) : \A x \in 0..(W - 1) :
               /\ Cell_alive(cells[y][x]) <=>
                      IF <<y, x>> = CellArray_mut_cell(last.x, last.y, H, W)
                      THEN last.op = "spawn"
                      ELSE Cell_alive(pre[y][x])
               /\ Cell_neighbours(cells[y][x]) =
                      IF last.op = "spawn"
                      THEN Cell_neighbours(pre[y][x]) + Occurrences(<<y, x>>, last.x, last.y)
                      ELSE Cell_neighbours(pre[y][x]) - Occurrences(<<y, x>>, last.x, last.y)

\* every cached count of the grid g of src/cell.rs equals calc_neighbours
RootCountInvariantOf(g, h, w) ==
    \A y \in 0..(h - 1) : \A x \in 0..(w - 1) :
        RootCell_neighbour_cnt(g[y][x]) = CellArray_calc_neighbours(g, x, y, h, w)

\* C21: in the grid of src/cell.rs, starting from the all-dead grid, after
\* every spawn_cell on a dead cell and every kill_cell on an alive cell the
\* call has returned and every cell, the killed one included, has
\* neighbour_cnt() equal to calc_neighbours() of its coordinate.
C21_RootCountInvariant ==
    (last.op \in {"new", "spawn_cell", "kill_cell"} /\ RootCountInvariantOf(pre, H, W)) =>
        (panic = "none" /\ RootCountInvariantOf(cells, H, W))

\* the turns of the scan of solve() that hand out the cell at <<row, column>> p
SolveVisits(scan, p) ==
    {k \in DOMAIN scan : CellArray_mut_cell(scan[k][1], scan[k][2], H, W) = p}

\* C22: solve() hands out every cell of the grid in exactly one turn of its
\* scan, the last row and the last column included, and leaves each cell
\* alive iff the copy made at the start has it alive with 2 or 3 neighbours
\* or dead with 3.
C22_SolveCoversGrid ==
    last.op = "solve" =>
        /\ panic = "none"
        /\ \A scan \in {SolveOrder(H, W)} : \A y \in 0..(H - 1) : \A x \in 0..(W - 1) :
               /\ Cardinality(SolveVisits(scan, <<y, x>>)) = 1
               /\ RootCell_is_alive(cells[y][x]) <=>
                      IF RootCell_is_alive(cell_cache[y][x])
                      THEN RootCell_neighbour_cnt(cell_cache[y][x]) \in {2, 3}
                      ELSE RootCell_neighbour_cnt(cell_cache[y][x]) = 3

\* C23: memcopy returns with other cell-for-cell equal to self and self
\* unchanged, having read and written exactly H * W cells.
C23_MemcopyExact ==
    last.op = "memcopy" =>
        /\ panic = "none"
        /\ cell_cache = cells
        /\ cells = pre
        /\ last.x = H * W

\* C24: the table neighbour_coordinates(x, y) of every spawn and kill_cell
\* call holds exactly the eight pairs (x + dx, y + dy), dx, dy in -1..1 not
\* both 0, unwrapped and pairwise distinct, never (x, y) itself; the cells
\* whose count the call changes are those the pairs address through mut_cell.
C24_NeighbourCoordinates ==
    last.op \in {"spawn", "kill_cell"} =>
        LET n == CellArray_neighbour_coordinates(last.x, last.y)
        IN  /\ Len(n) = 8
            /\ {n[i] : i \in 1..8} =
                   {<<last.x + dx, last.y + dy>> : dx \in -1..1, dy \in -1..1} \ {<<last.x, last.y>>}
            /\ \A i \in 1..8 : \A j \in 1..8 : n[i] = n[j] => i = j
            /\ \A i \in 1..8 : n[i] # <<last.x, last.y>>
            /\ \A y \in 0..(H - 1) : \A x \in 0..(W - 1) :
                   Cell_neighbours(cells[y][x]) # Cell_neighbours(pre[y][x]) =>
                       \E i \in 1..8 : CellArray_mut_cell(n[i][1], n[i][2], H, W) = <<y, x>>

\* spawn(-1, -1) on the empty 3 x 3 grid: the table holds the unwrapped
\* (-2, -2) and (0, 0), and the cells they address have count 1
C24_Witness ==
    /\ H = 3 /\ W = 3
    /\ last = [op |-> "spawn", x |-> -1, y |-> -1]
    /\ CellArray_neighbour_coordinates(last.x, last.y)[1] = <<-2, -2>>
    /\ CellArray_neighbour_coordinates(last.x, last.y)[8] = <<0, 0>>
    /\ cells[1][1] = 2
    /\ cells[0][0] = 2
    /\ cells[2][2] = 1

\* the physical cells <<row, column>> of the wrapped 3 x 3 neighbourhood of (x, y)
Neighbourhood(x, y) ==
    {<<cell_wrapped_y(y + dy, H), cell_wrapped_x(x + dx, W)>> : dx \in -1..1, dy \in -1..1}

\* the cells a spawn or kill_cell at (x, y) takes from mut_cell to write
Writes(x, y) ==
    {CellArray_mut_cell(x, y, H, W)} \cup
    {CellArray_mut_cell(CellArray_neighbour_coordinates(x, y)[i][1],
                        CellArray_neighbour_coordinates(x, y)[i][2], H, W) : i \in 1..8}

\* the cells whose byte differs between the grids g and k
Changed(g, k) == {p \in (0..(H - 1)) \X (0..(W - 1)) : g[p[1]][p[2]] # k[p[1]][p[2]]}

\* the call c = [kind, x, y] on the grid g
Apply(c, g) ==
    IF c.kind = "spawn" THEN CellArray_spawn(g, c.x, c.y, H, W, debug)
    ELSE CellArray_kill_cell(g, c.x, c.y, H, W, debug)

\* C25: the cells a call changes are among those it takes from mut_cell; when
\* the neighbourhoods of the first call a and the second call b share no
\* cell, the calls write disjoint cells, change disjoint cells and give the
\* same grid in either order; calls that write a common cell have
\* overlapping neighbourhoods.
C25_FarApartIndependent ==
    steps = 2 =>
        /\ Changed(pre, cells) \subseteq Writes(last.x, last.y)
        /\ Changed(cell_cache, pre) \subseteq Writes(seed.x, seed.y)
        /\ Writes(seed.x, seed.y) \cap Writes(last.x, last.y) # {} =>
               Neighbourhood(seed.x, seed.y) \cap Neighbourhood(last.x, last.y) # {}
        /\ Neighbourhood(seed.x, seed.y) \cap Neighbourhood(last.x, last.y) = {} =>
               /\ Writes(seed.x, seed.y) \cap Writes(last.x, last.y) = {}
               /\ Changed(cell_cache, pre) \cap Changed(pre, cells) = {}
               /\ \A b \in {Apply([kind |-> last.op, x |-> last.x, y |-> last.y], cell_cache)} :
                      b.panic = "none" => Apply(seed, b.cells).cells = cells

\* spawn(0, 0) then spawn(3, 0) on a 2 x 6 grid: columns 5, 0, 1 and 2, 3, 4
C25_Witness ==
    /\ H = 2 /\ W = 6
    /\ steps = 2
    /\ seed = [kind |-> "spawn", x |-> 0, y |-> 0]
    /\ last = [op |-> "spawn", x |-> 3, y |-> 0]
    /\ panic = "none"
    /\ Neighbourhood(seed.x, seed.y) \cap Neighbourhood(last.x, last.y) = {}
    /\ Changed(cell_cache, pre) = Neighbourhood(seed.x, seed.y)
    /\ Changed(pre, cells) = Neighbourhood(last.x, last.y)

\* C26: Field::cell(x, y) and Field::mut_cell(x, y) return for every x and
\* y, also x >= W or y >= H, with the cell of column x mod W and row
\* y mod H: cell reads its byte, mut_cell leaves every other cell as it was.
C26_FieldWraps ==
    /\ last.op = "cell" =>
           /\ panic = "none"
           /\ rcell = pre[last.y % H][last.x % W]
    /\ (last.op = "mut_cell" /\ seed.kind # "set_neighbors") =>
           /\ panic = "none"
           /\ \A y \in 0..(H - 1) : \A x \in 0..(W - 1) :
                  <<y, x>> # <<last.y % H, last.x % W>> => cells[y][x] = pre[y][x]

\* C27: along spawn calls on dead cells and kill_cell calls on alive cells
\* from the all-dead grid, every call returns, every state satisfies the
\* count invariant with every count in 0..8 and the unused bits clear, no
\* add_neighbour meets a count beyond 8 and no remove_neighbour a count of 0.
C27_DisciplinedUpdates ==
    /\ panic = "none"
    /\ CountInvariantOf(cells, H, W)
    /\ \A y \in 0..(H - 1) : \A x \in 0..(W - 1) :
           /\ Cell_neighbours(cells[y][x]) \in 0..8
           /\ cells[y][x] < 32
    /\ \A n \in {CellArray_neighbour_coordinates(last.x, last.y)} :
       \A at \in {[i \in 1..8 |-> CellArray_mut_cell(n[i][1], n[i][2], H, W)]} :
       \A i \in 1..8 :
           /\ last.op = "spawn" =>
                  Cell_neighbours(pre[at[i][1]][at[i][2]]) + Cardinality({j \in 1..8 : at[j] = at[i]}) <= 8
           /\ last.op = "kill_cell" =>
                  Cell_neighbours(pre[at[i][1]][at[i][2]]) >= Cardinality({j \in 1..8 : at[j] = at[i]})

\* three cells spawned on the 2 x 2 grid, one killed again
C27_Witness ==
    /\ H = 2 /\ W = 2
    /\ steps = 3
    /\ last.op = "kill_cell"
    /\ seed.kind = "spawn"
    /\ Cardinality(AliveCells(pre, H, W)) = 2
    /\ Cardinality(AliveCells(cells, H, W)) = 1
    /\ \E y \in 0..1 : \E x \in 0..1 : Cell_neighbours(pre[y][x]) = 6

\* C29: on a grid with exact counts, spawn(c) on a dead cell c followed by
\* kill_cell(c) returns the grid byte for byte, also where cells occur
\* several times among the wrapped neighbours of c.
C29_SpawnKillRoundTrip ==
    (/\ seed.kind = "spawn"
     /\ last.op = "kill_cell"
     /\ CellArray_mut_cell(seed.x, seed.y, H, W) = CellArray_mut_cell(last.x, last.y, H, W)
     /\ CountInvariantOf(cell_cache, H, W)
     /\ ~Cell_alive(CellArray_cell(cell_cache, seed.x, seed.y, H, W))) =>
        (panic = "none" /\ cells = cell_cache)

\* on a 3 x 2 grid with one live cell, its neighbour is spawned and killed
C29_Witness ==
    /\ H = 3 /\ W = 2
    /\ steps = 3
    /\ seed = [kind |-> "spawn", x |-> 1, y |-> 1]
    /\ last = [op |-> "kill_cell", x |-> 1, y |-> 1]
    /\ Cell_alive(cell_cache[0][0])
    /\ cell_cache[1][1] = 4
    /\ pre[1][1] = 5
    /\ cells = cell_cache

\* C28: on every square grid, every state reached from Engine::new() by
\* spawns of dead cells and generate() calls is reached without a panic and
\* satisfies the count invariant with counts in 0..8 and the unused bits
\* clear, and the alive cells after each generate() are the synchronous Life
\* successor of those before it.
C28_SquareGridCorrect ==
    H = W =>
        /\ panic = "none"
        /\ CountInvariantOf(cells, H, W)
        /\ \A y \in 0..(H - 1) : \A x \in 0..(W - 1) :
               /\ Cell_neighbours(cells[y][x]) \in 0..8
               /\ cells[y][x] < 32
               /\ last.op = "generate" => (Cell_alive(cells[y][x]) <=> LifeRule(pre, x, y, H, W))

\* a generate() on a 3 x 3 grid with three live cells that gives birth
C28_Witness ==
    /\ H = 3 /\ W = 3
    /\ last.op = "generate"
    /\ Cardinality(AliveCells(pre, H, W)) = 3
    /\ Cardinality(AliveCells(cells, H, W)) = 9
    /\ \A y \in 0..2 : \A x \in 0..2 : Cell_neighbours(cells[y][x]) = 8

\* C30: on a square grid with exact counts, when every turn of the scan of
\* generate() has been made, in whatever order, no turn has panicked and the
\* live grid is the one generate() produces with its own order.
C30_ScanOrderIndependent ==
    (H = W /\ last.op = "scan" /\ CountInvariantOf(pre, H, W)) =>
        /\ panic = "none"
        /\ todo = {} => cells = Engine_generate(pre, H, W, debug).cells

\* the second generation of a glider on the 5 x 5 grid, made in some order:
\* two cells have died and two were born
C30_Witness ==
    /\ H = 5 /\ W = 5
    /\ seed.kind = "glider"
    /\ last.op = "scan"
    /\ steps = 3
    /\ todo = {}
    /\ CountInvariantOf(pre, H, W)
    /\ Cardinality(AliveCells(pre, H, W) \ AliveCells(cells, H, W)) = 2
    /\ Cardinality(AliveCells(cells, H, W) \ AliveCells(pre, H, W)) = 2

\* the sum of the cached neighbour counts of the first k cells of g, taken
\* row by row
RECURSIVE SumCounts(_, _, _)
SumCounts(g, k, w) ==
    IF k = 0 THEN 0
    ELSE Cell_neighbours(g[(k - 1) \div w][(k - 1) % w]) + SumCounts(g, k - 1, w)

\* C31: in every state reached from the all-dead grid by spawns of dead cells
\* and kill_cell of alive cells, the cached neighbour counts of all H*W cells
\* add up to 8 times the number of alive cells.
C31_CountConservation ==
    /\ panic = "none"
    /\ SumCounts(cells, H * W, W) = 8 * Cardinality(AliveCells(cells, H, W))

\* two spawns and a kill_cell on a grid with a single row, where a cell is
\* among its own neighbours: one cell is left alive and the counts add up to 8
C31_Witness ==
    /\ H = 1 /\ W = 3
    /\ last.op = "kill_cell"
    /\ steps = 3
    /\ Cardinality(AliveCells(pre, H, W)) = 2
    /\ SumCounts(pre, H * W, W) = 16
    /\ Cardinality(AliveCells(cells, H, W)) = 1
    /\ SumCounts(cells, H * W, W) = 8

\* the rule applied at (x, y) whatever the snapshot byte is: the loop body of
\* generate() without its `continue`
RuleAt(r, cache, x, y, h, w, dbg) ==
    LET at == CellArray_mut_cell(x, y, h, w)
    IN  IF ~InArray(at[1], at[2], h, w) THEN [cells |-> r.cells, panic |-> "index"]
        ELSE LET c == cache[at[1]][at[2]]
                 neighbour_count == Cell_neighbours(c)
             IN  IF Cell_alive(c)
                 THEN IF neighbour_count < 2 \/ neighbour_count > 3
                      THEN CellArray_kill_cell(r.cells, x, y, h, w, dbg)
                      ELSE r
                 ELSE IF neighbour_count = 3
                      THEN CellArray_spawn(r.cells, x, y, h, w, dbg)
                      ELSE r

RECURSIVE RuleScan(_, _, _, _, _, _, _)
RuleScan(r, cache, scan, k, h, w, dbg) ==
    IF k > Len(scan) \/ r.panic # "none" THEN r
    ELSE RuleScan(RuleAt(r, cache, scan[k][1], scan[k][2], h, w, dbg),
                  cache, scan, k + 1, h, w, dbg)

\* the snapshot bytes the scan of generate() reads that are 0
ZeroBytes(g, h, w) ==
    {k \in 1..Len(ScanOrder(h, w)) :
        LET at == CellArray_mut_cell(ScanOrder(h, w)[k][1], ScanOrder(h, w)[k][2], h, w)
        IN  InArray(at[1], at[2], h, w) /\ g[at[1]][at[2]] = 0}

\* C32: after generate(), the live grid and the outcome are the ones the same
\* scan gives when the rule is applied to every snapshot cell, the cells
\* whose snapshot byte is 0 included.
C32_ZeroByteShortcut ==
    last.op = "generate" =>
        \A r \in {RuleScan([cells |-> pre, panic |-> "none"], pre, ScanOrder(H, W), 1, H, W, debug)} :
            /\ cells = r.cells
            /\ panic = r.panic

\* a generate() on the 5 x 5 grid with one live cell: 16 snapshot bytes are 0
\* and skipped, the live cell is not and dies
C32_Witness ==
    /\ H = 5 /\ W = 5
    /\ seed.kind = "one"
    /\ last.op = "generate"
    /\ steps = 2
    /\ Cardinality(ZeroBytes(pre, H, W)) = 16
    /\ Cardinality(AliveCells(pre, H, W)) = 1
    /\ AliveCells(cells, H, W) = {}
    /\ panic = "none"

\* the places mut_cell() hands out for the 8 entries of the neighbour table
\* of (x, y), in table order
NeighbourPlaces(x, y, h, w) ==
    [i \in 1..8 |-> CellArray_mut_cell(CellArray_neighbour_coordinates(x, y)[i][1],
                                       CellArray_neighbour_coordinates(x, y)[i][2], h, w)]

\* after the single spawn(last.x, last.y) on the empty grid: no neighbour
\* coordinate addresses the spawned cell, the 8 of them address 8 distinct
\* cells, the spawned cell is alive with count 0, and exactly 8 other cells
\* have count 1, all the rest being 0
SingleSpawnApart ==
    \A own \in {CellArray_mut_cell(last.x, last.y, H, W)} :
    \A at \in {NeighbourPlaces(last.x, last.y, H, W)} :
        /\ panic = "none"
        /\ \A i \in 1..8 : at[i] # own
        /\ \A i \in 1..8 : \A j \in 1..8 : i # j => at[i] # at[j]
        /\ cells[own[1]][own[2]] = Cell_spawn(Cell_new)
        /\ Cardinality({p \in (0..(H - 1)) \X (0..(W - 1)) :
                            p # own /\ cells[p[1]][p[2]] = Cell_add_neighbour(Cell_new).v}) = 8
        /\ \A p \in (0..(H - 1)) \X (0..(W - 1)) :
               (p # own /\ \A i \in 1..8 : at[i] # p) => cells[p[1]][p[2]] = Cell_new

\* C33 as stated: on every grid from 1 x 1 on, a single spawn on the empty
\* grid leaves the cell's own count at 0 and gives count 1 to 8 other,
\* distinct cells.
C33_NeverOwnNeighbour_AnySize ==
    last.op = "one" => SingleSpawnApart

\* C33, amended: on every grid with H >= 3 and W >= 3, none of the 8 wrapped
\* neighbour coordinates of (x, y) addresses the cell (x, y), the 8 address
\* distinct cells, and a single spawn on the empty grid leaves the cell's own
\* count at 0 and gives count 1 to each of the 8 others.
C33_NeverOwnNeighbour ==
    (last.op = "one" /\ H >= 3 /\ W >= 3) => SingleSpawnApart

\* spawn(-1, 3) on the empty 3 x 3 grid: the cell (2, 0) is alive with count
\* 0 and the 8 other cells of the grid have count 1
C33_Witness ==
    /\ H = 3 /\ W = 3
    /\ last = [op |-> "one", x |-> -1, y |-> 3]
    /\ cells[0][2] = Cell_spawn(Cell_new)
    /\ \A p \in (0..2) \X (0..2) : p # <<0, 2>> => Cell_neighbours(cells[p[1]][p[2]]) = 1
    /\ SingleSpawnApart

\* the set s of cells <<x, y>> moved by (dx, dy) on the h x w torus
Translated(s, dx, dy, h, w) ==
    {<<(c[1] + dx) % w, (c[2] + dy) % h>> : c \in s}

\* C34: on a square grid with H = W >= 5, after spawn_glider(x, y) on the
\* empty grid and exactly 4 generate() calls, the live cells are the five
\* seeded cells moved by (+1, +1) with wrap-around, and the count invariant
\* holds.
C34_GliderTranslation ==
    (seed.kind = "glider" /\ H = W /\ H >= 5 /\ last.op = "generate" /\ steps = 5) =>
        \A seeded \in {AliveCells(Seeded(seed, H, W, debug).cells, H, W)} :
            /\ panic = "none"
            /\ Cardinality(seeded) = 5
            /\ AliveCells(cells, H, W) = Translated(seeded, 1, 1, H, W)
            /\ Cardinality(AliveCells(cells, H, W)) = 5
            /\ CountInvariantOf(cells, H, W)

\* the glider seeded at (3, 3) on the 5 x 5 grid, across both edges, after
\* its fourth generate(): it has moved to where spawn_glider(4, 4) puts it
C34_Witness ==
    /\ H = 5 /\ W = 5
    /\ seed = [kind |-> "glider", x |-> 3, y |-> 3]
    /\ last.op = "generate"
    /\ steps = 5
    /\ panic = "none"
    /\ AliveCells(cells, H, W) = {<<1, 4>>, <<1, 0>>, <<1, 1>>, <<0, 1>>, <<4, 0>>}
    /\ AliveCells(pre, H, W) # AliveCells(cells, H, W)

\* the five coordinates C35 names for spawn_glider(x, y)
NamedGlider(x, y) ==
    << <<x + 2, y>>, <<x + 2, y + 1>>, <<x + 2, y + 2>>, <<x + 1, y + 2>>, <<x, y + 1>> >>

\* the cell <<x, y>> of the h x w grid that the signed coordinate c wraps to
WrappedImage(c, h, w) == <<c[1] % w, c[2] % h>>

\* C35: spawn_glider(x, y) on the empty grid with H >= 3 and W >= 3, for
\* every signed (x, y), makes alive exactly the wrapped images of (x+2, y),
\* (x+2, y+1), (x+2, y+2), (x+1, y+2), (x, y+1), which are five distinct
\* cells, so that no cell is spawned twice, and leaves the counts exact.
C35_SpawnGliderFiveCells ==
    (last.op = "glider" /\ H >= 3 /\ W >= 3) =>
        \A named \in {NamedGlider(last.x, last.y)} :
            /\ panic = "none"
            /\ \A i \in 1..5 : \A j \in 1..5 :
                   i # j => WrappedImage(named[i], H, W) # WrappedImage(named[j], H, W)
            /\ AliveCells(cells, H, W) = {WrappedImage(named[i], H, W) : i \in 1..5}
            /\ Cardinality(AliveCells(cells, H, W)) = 5
            /\ CountInvariantOf(cells, H, W)

\* spawn_glider(-1, 3) on the empty 3 x 4 grid: every coordinate of the
\* pattern but one lies outside the array and wraps
C35_Witness ==
    /\ H = 3 /\ W = 4
    /\ last = [op |-> "glider", x |-> -1, y |-> 3]
    /\ steps = 1
    /\ panic = "none"
    /\ AliveCells(cells, H, W) = {<<1, 0>>, <<1, 1>>, <<1, 2>>, <<0, 2>>, <<3, 1>>}
    /\ CountInvariantOf(cells, H, W)

\* C36: on every H x W grid of the root CellArray, width() returns the number
\* of columns W and height() returns the number of rows H, as rows() and
\* cols() of src/gol/types/cell_array.rs return H and W.
C36_WidthIsColumns ==
    /\ RootCellArray_width(H, W) = W
    /\ RootCellArray_height(H, W) = H
    /\ RootCellArray_height(H, W) = CellArray_rows(H, W)
    /\ RootCellArray_width(H, W) = CellArray_cols(H, W)

====
